---- MODULE Spec2Model ----
(***************************************************************************)
(* A model of the synthetic-data generator of CCheck-dash,                 *)
(* src/data/generators/generate_data_v2.py: the AACE class table, the      *)
(* regional multipliers, and main()'s pipeline of generate_businesses,     *)
(* generate_estimators, generate_expertise, generate_projects,             *)
(* generate_estimates (with generate_progressive_estimates) and            *)
(* generate_reviews over one sqlite3 connection.                           *)
(*                                                                         *)
(* Units.  Money is counted in cents (round(x, 2) of the source gives a    *)
(* whole number of cents); base_cost, the midpoint of two cent amounts,    *)
(* is kept doubled (half-cents).  Multipliers and the class offsets are    *)
(* hundredths (percent).  Dates are whole days after START_DATE.           *)
(* contingency_percent is kept in hundredths of a percent.  Arithmetic is  *)
(* that of the reals followed by the source's rounding; binary floating    *)
(* point error below the rounding step is not modelled.                    *)
(*                                                                         *)
(* Randomness.  A draw of the unseeded generators (the standard library's  *)
(* random module) is a nondeterministic choice from a finite subset of     *)
(* the draw's range; each specification names the subsets it explores in   *)
(* a record of draw sets.  A draw of the seeded generators (numpy, Faker:  *)
(* source lines 21-24) is a function of the seed and of its position in    *)
(* the generator's stream.  uuid.uuid4() reads the operating system's      *)
(* entropy: a value fresh for the process that draws it.                   *)
(***************************************************************************)
EXTENDS Integers, Sequences, FiniteSets, TLC

VARIABLES
    pc,          \* main()'s position: the phase running, "done" or "aborted"
    cfg,         \* the data volumes: NUM_BUSINESSES, NUM_CONSULTANTS + NUM_FREELANCERS, NUM_PROJECTS
    run,         \* which execution of the script this is (1, 2): the entropy uuid4 reads
    businesses,  \* the list generate_businesses returns
    estimators,  \* the list generate_estimators returns
    projects,    \* the list generate_projects returns
    db,          \* the store's committed rows, one sequence per table, in insertion order
    tx,          \* the rows inserted on the connection and not yet committed
    loop,        \* generate_estimates' and generate_reviews' locals: project index, mode, estimators chosen, seq
    seeded,      \* the values the seeded generators (numpy, Faker) give, by position in their stream
    pos,         \* how many draws this execution has taken from each seeded stream
    prior,       \* the store the previous execution of the script left
    calls,       \* the projects generate_progressive_estimates() has been called for
    arg,         \* the argument of a function called on its own, <<>> when none is
    ret,         \* what that call returned, in a tuple; <<>> before it returns
    ui           \* the platform-admin page in a browser: the charts' clickData and the filter stores

vars == <<pc, cfg, run, businesses, estimators, projects, db, tx, loop, seeded, pos, prior, calls,
         arg, ret, ui>>

----------------------------------------------------------------------------
(* Bounds of the model. *)

\* the largest NUM_BUSINESSES explored
MaxBusinesses == 2
\* the largest NUM_CONSULTANTS + NUM_FREELANCERS explored
MaxEstimators == 1
\* the largest NUM_PROJECTS explored
MaxProjects == 1

----------------------------------------------------------------------------
(* Configuration constants of the source. *)

MAX_PROGRESSIVE_ESTIMATES == 5

\* END_DATE - START_DATE, in days (2023-12-01 to 2025-11-30)
END_DATE == 730

\* mutant: class_3 given a band wider than class_4's
AACE_CLASSES_wide_class_3 ==
    [ class_5 |-> [confidence_low |-> -50, confidence_high |-> 100,
                   typical_contingency |-> 2000, engineering_completion |-> 2],
      class_4 |-> [confidence_low |-> -30, confidence_high |-> 50,
                   typical_contingency |-> 1500, engineering_completion |-> 10],
      class_3 |-> [confidence_low |-> -20, confidence_high |-> 60,
                   typical_contingency |-> 1200, engineering_completion |-> 30],
      class_2 |-> [confidence_low |-> -15, confidence_high |-> 20,
                   typical_contingency |-> 800, engineering_completion |-> 65],
      class_1 |-> [confidence_low |-> -10, confidence_high |-> 15,
                   typical_contingency |-> 500, engineering_completion |-> 95] ]

AACE_CLASSES ==
    [ class_5 |-> [confidence_low |-> -50, confidence_high |-> 100,
                   typical_contingency |-> 2000, engineering_completion |-> 2],
      class_4 |-> [confidence_low |-> -30, confidence_high |-> 50,
                   typical_contingency |-> 1500, engineering_completion |-> 10],
      class_3 |-> [confidence_low |-> -20, confidence_high |-> 30,
                   typical_contingency |-> 1200, engineering_completion |-> 30],
      class_2 |-> [confidence_low |-> -15, confidence_high |-> 20,
                   typical_contingency |-> 800, engineering_completion |-> 65],
      class_1 |-> [confidence_low |-> -10, confidence_high |-> 15,
                   typical_contingency |-> 500, engineering_completion |-> 95] ]

\* list(AACE_CLASSES.keys()), in the dict's insertion order
AACE_CLASS_KEYS == <<"class_5", "class_4", "class_3", "class_2", "class_1">>

REGIONAL_COST_MULTIPLIERS ==
    ( "NY" :> 135 @@ "CA" :> 130 @@ "MA" :> 125 @@ "WA" :> 120 @@ "HI" :> 200 @@
      "IL" :> 115 @@ "CO" :> 112 @@ "OR" :> 110 @@ "PA" :> 108 @@ "MN" :> 150 @@
      "TX" :> 100 @@ "FL" :> 100 @@ "NC" :> 98 @@ "GA" :> 97 @@ "AZ" :> 96 @@
      "TN" :> 92 @@ "OH" :> 90 @@ "IN" :> 88 @@ "NV" :> 95 @@ "MI" :> 93 )

\* the state of each (city, state) pair of MAJOR_CITIES, in the list's order
MAJOR_CITIES ==
    << "NY", "CA", "IL", "TX", "AZ", "PA", "TX", "CA", "TX",
       "TX", "FL", "CA", "TX", "OH", "NC", "IN", "WA", "CO",
       "MA", "OR", "GA", "FL", "NV", "MI", "TN", "MN", "FL" >>

\* mutant: no multiplier for a state the table does not have
get_regional_multiplier_no_default(state) ==
    IF state \in DOMAIN REGIONAL_COST_MULTIPLIERS
    THEN REGIONAL_COST_MULTIPLIERS[state]
    ELSE 0

get_regional_multiplier(state) ==
    IF state \in DOMAIN REGIONAL_COST_MULTIPLIERS
    THEN REGIONAL_COST_MULTIPLIERS[state]
    ELSE 100

----------------------------------------------------------------------------
(* Arithmetic helpers. *)

Min(a, b) == IF a <= b THEN a ELSE b
Max(a, b) == IF a >= b THEN a ELSE b

RECURSIVE MulDiv(_, _, _)
\* <<quotient, remainder>> of the exact product a * k divided by d (a >= 0,
\* k >= 0, d > 0), taken a decimal digit of a at a time so that no
\* intermediate value leaves the 32-bit integers of the checker.
MulDiv(a, k, d) ==
    IF a < 10
    THEN <<(a * k) \div d, (a * k) % d>>
    ELSE LET hi == MulDiv(a \div 10, k, d)
             low == hi[2] * 10 + (a % 10) * k
         IN  <<hi[1] * 10 + (low \div d), low % d>>

\* Python's round() of the exact quotient a * k / d to a whole number: to
\* the nearest, a tie going to the even neighbour.
Round(a, k, d) ==
    LET qr == MulDiv(a, k, d)
    IN  IF 2 * qr[2] < d THEN qr[1]
        ELSE IF 2 * qr[2] > d THEN qr[1] + 1
        ELSE IF qr[1] % 2 = 0 THEN qr[1] ELSE qr[1] + 1

\* random.uniform(a, b) at the point u/4 of the way from a to b (u in 0..4);
\* a and b are given in units that make the quarter points whole.
uniform(a, b, u) == a + ((b - a) * u) \div 4

\* the elements of a sequence
Range(s) == {s[k] : k \in DOMAIN s}

\* mutant: k elements drawn with replacement, as random.choices does
SamplesWithReplacement(pool, k) == [1..k -> DOMAIN pool]

\* random.sample(pool, k): every arrangement of k distinct elements of pool
Samples(pool, k) ==
    {s \in [1..k -> DOMAIN pool] : \A a, b \in 1..k : a # b => s[a] # s[b]}

----------------------------------------------------------------------------
(* The store: six tables, each the sequence of its rows. *)

Tables == {"businesses", "estimators", "expertise", "projects", "estimates", "reviews"}

EmptyStore == [t \in Tables |-> <<>>]

\* the rows a reader of the connection sees: committed, then pending
Rows(t) == db[t] \o tx[t]

\* cursor.execute("INSERT INTO t ..."): the row joins the connection's open transaction
Insert(t, row) == [tx EXCEPT ![t] = Append(@, row)]

\* conn.commit()
Committed == [t \in Tables |-> db[t] \o tx[t]]

\* str(uuid.uuid4()): fresh for this execution, for this table's k-th row
uuid4(t, k) == <<run, t, k>>

----------------------------------------------------------------------------
(* main(): the order of its calls. *)

\* mutant: generate_reviews() called before generate_estimates()
MainOrderReviewsFirst ==
    <<"businesses", "estimators", "expertise", "projects", "reviews", "estimates">>

MainOrder == <<"businesses", "estimators", "expertise", "projects", "estimates", "reviews">>

Rank(p) == IF p = "main" THEN 0
           ELSE IF \E k \in DOMAIN MainOrder : MainOrder[k] = p
                THEN CHOOSE k \in DOMAIN MainOrder : MainOrder[k] = p
                ELSE Len(MainOrder) + 1

NextPhase(p) == IF Rank(p) < Len(MainOrder) THEN MainOrder[Rank(p) + 1] ELSE "done"

\* the page as served: no clickData, dcc.Store(id='filter-status', data=None) and
\* dcc.Store(id='filter-type', data=None), no callback run yet
NoUi ==
    [ loaded |-> FALSE, status_click |-> "None", type_click |-> "None",
      filter_status |-> "None", filter_type |-> "None" ]

NoLoop == [i |-> 1, mode |-> "none", sel |-> <<>>, num |-> 0, seq |-> 0, total_count |-> 0]

----------------------------------------------------------------------------
(* The seeded generators.  np.random.seed(42) and Faker.seed(42) run when   *)
(* the script starts, so the k-th value either stream gives is the same in *)
(* every execution; it is chosen when first drawn and replayed after.      *)

\* the values the stream's next draw may give, from the set `range`
SeededDraws(stream, range) ==
    IF pos[stream] < Len(seeded[stream])
    THEN {seeded[stream][pos[stream] + 1]}
    ELSE range

\* the streams after the draw gave v
SeededAfter(stream, v) ==
    IF pos[stream] < Len(seeded[stream])
    THEN seeded
    ELSE [seeded EXCEPT ![stream] = Append(@, v)]

----------------------------------------------------------------------------
(* create_database() and generate_businesses(). *)

\* create_database(): drops and recreates every table on a connection of its own
create_database ==
    /\ pc = "main"
    /\ db' = EmptyStore
    /\ tx' = EmptyStore
    /\ pc' = MainOrder[1]
    /\ UNCHANGED <<cfg, run, businesses, estimators, projects, loop, seeded, pos, prior, calls, arg, ret, ui>>

\* one iteration of generate_businesses' loop
generate_businesses(D) ==
    /\ pc = "businesses"
    /\ Len(businesses) < cfg.businesses
    /\ \E c \in D.city, revenue \in SeededDraws("np", D.lognormal) :
         LET business == [ business_id |-> uuid4("businesses", Len(businesses) + 1),
                           state |-> MAJOR_CITIES[c],
                           annual_revenue |-> revenue ]
         IN  /\ businesses' = Append(businesses, business)
             /\ tx' = Insert("businesses", business)
             /\ seeded' = SeededAfter("np", revenue)
             /\ pos' = [pos EXCEPT !["np"] = @ + 1]
    /\ UNCHANGED <<pc, cfg, run, estimators, projects, db, loop, prior, calls, arg, ret, ui>>

\* one iteration of generate_estimators' loop; of the values it takes from
\* numpy the row keeps client_satisfaction_score, in hundredths
generate_estimators(D) ==
    /\ pc = "estimators"
    /\ Len(estimators) < cfg.estimators
    /\ \E score \in SeededDraws("np", D.satisfaction) :
         LET estimator == [ estimator_id |-> uuid4("estimators", Len(estimators) + 1),
                            client_satisfaction_score |-> score ]
         IN  /\ estimators' = Append(estimators, estimator)
             /\ tx' = Insert("estimators", estimator)
             /\ seeded' = SeededAfter("np", score)
             /\ pos' = [pos EXCEPT !["np"] = @ + 1]
    /\ UNCHANGED <<pc, cfg, run, businesses, projects, db, loop, prior, calls, arg, ret, ui>>

\* one iteration of generate_expertise's outer loop: the estimator's
\* random.randint(1, 3) expertise rows
generate_expertise(D) ==
    /\ pc = "expertise"
    /\ loop.i <= Len(estimators)
    /\ \E num_specializations \in D.specializations :
         LET have == Len(Rows("expertise"))
             rows == [k \in 1..num_specializations |->
                        [ expertise_id |-> uuid4("expertise", have + k),
                          estimator_id |-> estimators[loop.i].estimator_id ]]
         IN  tx' = [tx EXCEPT !["expertise"] = @ \o rows]
    /\ loop' = [loop EXCEPT !.i = @ + 1]
    /\ UNCHANGED <<pc, cfg, run, businesses, estimators, projects, db, seeded, pos, prior, calls, arg, ret, ui>>

----------------------------------------------------------------------------
(* generate_projects(). *)

\* mutant: the minimum taken from the unadjusted base
budget_min_unadjusted(base_budget, regional_multiplier) ==
    Round(base_budget, 800, 1000)

\* round(adjusted_budget * 0.8, 2), adjusted_budget = base_budget * regional_multiplier
budget_min(base_budget, regional_multiplier) ==
    Round(base_budget, regional_multiplier * 8, 1000)

\* round(adjusted_budget * 1.2, 2)
budget_max(base_budget, regional_multiplier) ==
    Round(base_budget, regional_multiplier * 12, 1000)

\* the statuses random.choices draws from, by the project's age in days
\* mutant: the last threshold compared with >=
status_choices_from_60(days_since_posted) ==
    IF days_since_posted > 300 THEN <<"completed", "cancelled", "in_progress">>
    ELSE IF days_since_posted > 150 THEN <<"in_progress", "estimate_delivered", "completed">>
    ELSE IF days_since_posted >= 60 THEN <<"matched", "estimate_in_progress", "in_progress">>
    ELSE <<"posted", "in_bidding", "matched">>

status_choices(days_since_posted) ==
    IF days_since_posted > 300 THEN <<"completed", "cancelled", "in_progress">>
    ELSE IF days_since_posted > 150 THEN <<"in_progress", "estimate_delivered", "completed">>
    ELSE IF days_since_posted > 60 THEN <<"matched", "estimate_in_progress", "in_progress">>
    ELSE <<"posted", "in_bidding", "matched">>

\* mutant: the exception caught and the run reported as complete
raise_swallowed ==
    /\ pc' = "done"
    /\ tx' = EmptyStore
    /\ UNCHANGED <<cfg, run, businesses, estimators, projects, db, loop, seeded, pos, prior, calls, arg, ret, ui>>

\* an exception leaves main() through its finally: conn.close() drops the
\* open transaction, and what earlier phases committed stays in the store
raise ==
    /\ pc' = "aborted"
    /\ tx' = EmptyStore
    /\ UNCHANGED <<cfg, run, businesses, estimators, projects, db, loop, seeded, pos, prior, calls, arg, ret, ui>>

\* one iteration of generate_projects' loop
generate_projects(D) ==
    /\ pc = "projects"
    /\ Len(projects) < cfg.projects
    /\ businesses # <<>>
    /\ \E b \in DOMAIN businesses, c \in D.city, pick \in D.status_pick,
          posted_date \in SeededDraws("fake", D.posted),
          base_budget \in SeededDraws("np", D.lognormal) :
         LET state == MAJOR_CITIES[c]
             regional_multiplier == get_regional_multiplier(state)
             days_since_posted == END_DATE - posted_date
             project == [ project_id |-> uuid4("projects", Len(projects) + 1),
                          business_id |-> businesses[b].business_id,
                          project_state |-> state,
                          regional_cost_multiplier |-> regional_multiplier,
                          estimated_budget_min |-> budget_min(base_budget, regional_multiplier),
                          estimated_budget_max |-> budget_max(base_budget, regional_multiplier),
                          status |-> status_choices(days_since_posted)[pick],
                          posted_date |-> posted_date ]
         IN  /\ projects' = Append(projects, project)
             /\ tx' = Insert("projects", project)
             /\ seeded' = [ SeededAfter("np", base_budget) EXCEPT
                              !["fake"] = SeededAfter("fake", posted_date)["fake"] ]
             /\ pos' = [pos EXCEPT !["np"] = @ + 1, !["fake"] = @ + 1]
    /\ UNCHANGED <<pc, cfg, run, businesses, estimators, db, loop, prior, calls, arg, ret, ui>>

\* random.choice(businesses) on an empty list raises IndexError
generate_projects_raises ==
    /\ pc = "projects"
    /\ Len(projects) < cfg.projects
    /\ businesses = <<>>
    /\ raise

----------------------------------------------------------------------------
(* The end of a phase: its loop is over, it commits and main() calls the   *)
(* next one.                                                               *)

LoopDone ==
    CASE pc = "businesses" -> Len(businesses) = cfg.businesses
      [] pc = "estimators" -> Len(estimators) = cfg.estimators
      [] pc = "expertise" -> loop.i > Len(estimators)
      [] pc = "projects" -> Len(projects) = cfg.projects
      [] pc = "estimates" -> loop.i > Len(projects) /\ loop.mode = "none"
      [] pc = "reviews" -> loop.i > Len(projects)
      [] OTHER -> FALSE

commit ==
    /\ LoopDone
    /\ db' = Committed
    /\ tx' = EmptyStore
    /\ pc' = NextPhase(pc)
    /\ loop' = NoLoop
    /\ UNCHANGED <<cfg, run, businesses, estimators, projects, seeded, pos, prior, calls, arg, ret, ui>>

----------------------------------------------------------------------------
(* The fields of an estimate, computed the same way by                     *)
(* generate_progressive_estimates() and by generate_estimates().           *)

\* base_cost = (estimated_budget_min + estimated_budget_max) / 2, doubled
base_cost_x2(project) == project.estimated_budget_min + project.estimated_budget_max

\* variance = random.uniform(variance_low, variance_high), in quarters of a percent
variance(class_info, u) ==
    uniform(4 * class_info.confidence_low, 4 * class_info.confidence_high, u)

\* round(base_cost * (1 + variance), 2)
estimated_total_cost(base2, v) == Round(base2, 400 + v, 800)

\* mutant: the low bound computed from the class's high offset
confidence_interval_low_from_high(base2, class_info) ==
    Round(base2, 100 + class_info.confidence_high, 200)

\* round(base_cost * (1 + variance_low), 2)
confidence_interval_low(base2, class_info) ==
    Round(base2, 100 + class_info.confidence_low, 200)

\* round(base_cost * (1 + variance_high), 2)
confidence_interval_high(base2, class_info) ==
    Round(base2, 100 + class_info.confidence_high, 200)

\* mutant: the jitter added and the clamp left out
engineering_pct_unclamped(class_info, jitter) ==
    class_info.engineering_completion + jitter

\* max(0, min(100, class_info['engineering_completion'] + random.randint(-5, 10)))
engineering_pct(class_info, jitter) ==
    Max(0, Min(100, class_info.engineering_completion + jitter))

\* round(class_info['typical_contingency'] + random.uniform(-2, 2), 2)
contingency_pct(class_info, u) ==
    class_info.typical_contingency + uniform(-200, 200, u)

\* mutant: the component cut down to whole dollars
cost_component_whole_dollars(base2, v, low, high, u) ==
    (Round(base2, (400 + v) * uniform(low, high, u), 8000000) \div 100) * 100

\* round(estimated_cost * random.uniform(low, high), 2); low and high in hundredths of a percent
cost_component(base2, v, low, high, u) ==
    Round(base2, (400 + v) * uniform(low, high, u), 8000000)

\* the six cost components, f the six draws
cost_breakdown(base2, v, f) ==
    [ labor_cost |-> cost_component(base2, v, 3000, 4500, f[1]),
      materials_cost |-> cost_component(base2, v, 2500, 4000, f[2]),
      equipment_cost |-> cost_component(base2, v, 500, 1500, f[3]),
      subcontractor_cost |-> cost_component(base2, v, 1000, 2500, f[4]),
      overhead_cost |-> cost_component(base2, v, 800, 1500, f[5]),
      profit_margin |-> cost_component(base2, v, 500, 1200, f[6]) ]

----------------------------------------------------------------------------
(* generate_progressive_estimates(). *)

\* mutant: the progression written from the most mature class down
class_progression_reversed == <<"class_1", "class_2", "class_3", "class_4", "class_5">>

class_progression == <<"class_5", "class_4", "class_3", "class_2", "class_1">>

\* mutant: the index capped one short of the last class
class_index_short(seq) == Min(seq, 3)

\* class_index = min(seq, len(class_progression) - 1), seq counted from 0
class_index(seq) == Min(seq, Len(class_progression) - 1)

\* days_offset = seq * random.randint(7, 21)
days_offset(seq, r) == seq * r

\* mutant: the last step taken to be num_estimates, which the loop never reaches
progressive_status_off_by_one(seq, num_estimates) ==
    IF seq = num_estimates THEN "accepted" ELSE "superseded"

\* mutant: the loop index stored as it is
estimate_sequence_from_zero(seq) == seq

\* 'estimate_sequence': seq + 1
estimate_sequence(seq) == seq + 1

\* 'accepted' if seq == num_estimates - 1 else 'superseded'
progressive_status(seq, num_estimates) ==
    IF seq = num_estimates - 1 THEN "accepted" ELSE "superseded"

\* the row of step seq (from 0) of the sequence; d holds the step's draws
progressive_estimate(project, estimator, num_estimates, seq, d, id) ==
    LET aace_class == class_progression[class_index(seq) + 1]
        class_info == AACE_CLASSES[aace_class]
        base2 == base_cost_x2(project)
        v == variance(class_info, d.variance)
    IN  [ estimate_id |-> id,
          project_id |-> project.project_id,
          estimator_id |-> estimator.estimator_id,
          estimate_sequence |-> estimate_sequence(seq),
          aace_class |-> aace_class,
          engineering_completion_percent |-> engineering_pct(class_info, d.eng),
          estimated_total_cost |-> estimated_total_cost(base2, v),
          confidence_interval_low |-> confidence_interval_low(base2, class_info),
          confidence_interval_high |-> confidence_interval_high(base2, class_info),
          cost_breakdown |-> cost_breakdown(base2, v, d.fractions),
          contingency_percent |-> contingency_pct(class_info, d.cont),
          status |-> progressive_status(seq, num_estimates),
          submitted_date |-> project.posted_date + days_offset(seq, d.days) ]

\* mutant: an estimator taken again at every step of the loop
selected_estimator_per_step(sel, seq) ==
    estimators[((sel[1] + seq) % Len(estimators)) + 1]

\* estimator = random.choice(estimators), once, before the loop over seq
selected_estimator(sel, seq) == estimators[sel[1]]

\* the draws of one step of the sequence, each from its set in D
ProgressiveDraws(D) ==
    [ variance : D.variance, eng : D.eng, cont : D.cont, fractions : D.fractions,
      days : D.days ]

\* generate_estimates() takes the progressive branch for the next project:
\* generate_progressive_estimates() picks its estimator and the length
begin_progressive ==
    /\ pc = "estimates"
    /\ loop.mode = "none"
    /\ loop.i <= Len(projects)
    /\ estimators # <<>>
    /\ \E e \in DOMAIN estimators, num_estimates \in 2..MAX_PROGRESSIVE_ESTIMATES :
         loop' = [loop EXCEPT !.mode = "progressive", !.sel = <<e>>,
                              !.num = num_estimates, !.seq = 0]
    /\ calls' = calls \cup {projects[loop.i].project_id}
    /\ UNCHANGED <<pc, cfg, run, businesses, estimators, projects, db, tx, seeded, pos, prior, arg, ret, ui>>

\* random.choice(estimators) on an empty list raises IndexError
progressive_raises ==
    /\ pc = "estimates"
    /\ loop.mode = "none"
    /\ loop.i <= Len(projects)
    /\ estimators = <<>>
    /\ raise

\* one iteration of generate_progressive_estimates' loop; after the last
\* the function returns and generate_estimates() moves to the next project
progressive_step(D) ==
    /\ pc = "estimates"
    /\ loop.mode = "progressive"
    /\ loop.seq < loop.num
    /\ \E d \in ProgressiveDraws(D) :
         tx' = Insert("estimates",
                      progressive_estimate(projects[loop.i], selected_estimator(loop.sel, loop.seq),
                                           loop.num, loop.seq, d,
                                           uuid4("estimates", Len(Rows("estimates")) + 1)))
    /\ loop' = IF loop.seq + 1 = loop.num
               THEN [NoLoop EXCEPT !.i = loop.i + 1,
                                   !.total_count = loop.total_count + loop.num]
               ELSE [loop EXCEPT !.seq = @ + 1]
    /\ UNCHANGED <<pc, cfg, run, businesses, estimators, projects, db, seeded, pos, prior, calls, arg, ret, ui>>

----------------------------------------------------------------------------
(* generate_estimates(): the independent bids of a project. *)

\* mutant: a bid that is not accepted marked as a progressive step would be
bid_status_superseding(accepted) == IF accepted THEN "accepted" ELSE "superseded"

\* 'accepted' if random.random() > 0.7 else 'pending'
bid_status(accepted) == IF accepted THEN "accepted" ELSE "pending"

\* the row of one bid; d holds its draws
independent_estimate(project, estimator, d, id) ==
    LET aace_class == AACE_CLASS_KEYS[d.klass]
        class_info == AACE_CLASSES[aace_class]
        base2 == base_cost_x2(project)
        v == variance(class_info, d.variance)
    IN  [ estimate_id |-> id,
          project_id |-> project.project_id,
          estimator_id |-> estimator.estimator_id,
          estimate_sequence |-> 1,
          aace_class |-> aace_class,
          engineering_completion_percent |-> engineering_pct(class_info, d.eng),
          estimated_total_cost |-> estimated_total_cost(base2, v),
          confidence_interval_low |-> confidence_interval_low(base2, class_info),
          confidence_interval_high |-> confidence_interval_high(base2, class_info),
          cost_breakdown |-> cost_breakdown(base2, v, d.fractions),
          contingency_percent |-> contingency_pct(class_info, d.cont),
          status |-> bid_status(d.accepted),
          submitted_date |-> project.posted_date + d.bid_days ]

\* the draws of one bid, each from its set in D
BidDraws(D) ==
    [ variance : D.variance, eng : D.eng, cont : D.cont, fractions : D.fractions,
      klass : D.klass, bid_days : D.bid_days, accepted : D.accepted ]

\* the else branch for the next project: num_estimates = random.randint(1, 3)
\* and random.sample(estimators, min(num_estimates, len(estimators))); with
\* nothing selected the inner loop has no iteration and the next project follows
begin_independent ==
    /\ pc = "estimates"
    /\ loop.mode = "none"
    /\ loop.i <= Len(projects)
    /\ \E num_estimates \in 1..3 :
         \E selected_estimators \in Samples(estimators, Min(num_estimates, Len(estimators))) :
            loop' = IF selected_estimators = <<>>
                    THEN [loop EXCEPT !.i = @ + 1]
                    ELSE [loop EXCEPT !.mode = "independent", !.sel = selected_estimators,
                                      !.num = num_estimates, !.seq = 0]
    /\ UNCHANGED <<pc, cfg, run, businesses, estimators, projects, db, tx, seeded, pos, prior, calls, arg, ret, ui>>

\* one iteration of the loop over selected_estimators
independent_step(D) ==
    /\ pc = "estimates"
    /\ loop.mode = "independent"
    /\ loop.seq < Len(loop.sel)
    /\ \E d \in BidDraws(D) :
         tx' = Insert("estimates",
                      independent_estimate(projects[loop.i], estimators[loop.sel[loop.seq + 1]], d,
                                           uuid4("estimates", Len(Rows("estimates")) + 1)))
    /\ loop' = IF loop.seq + 1 = Len(loop.sel)
               THEN [NoLoop EXCEPT !.i = loop.i + 1, !.total_count = loop.total_count + 1]
               ELSE [loop EXCEPT !.seq = @ + 1, !.total_count = @ + 1]
    /\ UNCHANGED <<pc, cfg, run, businesses, estimators, projects, db, seeded, pos, prior, calls, arg, ret, ui>>

----------------------------------------------------------------------------
(* generate_reviews(). *)

\* round(np.random.beta(8, 2) * 4 + 1, 1): the sample in hundredths, the
\* rating in tenths
overall_rating(beta) == Round(beta * 4 + 100, 1, 10)

\* mutant: the jitter added and rounded, the clamp left out
sub_rating_unclamped(overall, u) ==
    Round(overall * 10 + uniform(-50, 50, u), 1, 10)

\* round(min(5.0, max(1.0, overall_rating + random.uniform(-0.5, 0.5))), 1);
\* ratings in tenths, the sum before rounding in hundredths
sub_rating(overall, u) ==
    Round(Min(500, Max(100, overall * 10 + uniform(-50, 50, u))), 1, 10)

\* mutant: the threshold itself left out
would_recommend_above(overall) == IF overall > 40 THEN 1 ELSE 0

\* 1 if overall_rating >= 4.0 else 0
would_recommend(overall) == IF overall >= 40 THEN 1 ELSE 0

\* 1 if overall_rating >= 4.5 else 0
would_work_again(overall) == IF overall >= 45 THEN 1 ELSE 0

\* mutant: the first business taken as the reviewer
reviewer_first(project) == businesses[1]

\* business = next(b for b in businesses if b['business_id'] == project['business_id'])
reviewer(project) ==
    CHOOSE b \in Range(businesses) : b.business_id = project.business_id

\* the review of a completed project; j holds the five jitter draws
review_of(project, estimator, overall, j, id) ==
    [ review_id |-> id,
      project_id |-> project.project_id,
      reviewer_id |-> reviewer(project).business_id,
      reviewee_id |-> estimator.estimator_id,
      overall_rating |-> overall,
      communication_rating |-> sub_rating(overall, j[1]),
      professionalism_rating |-> sub_rating(overall, j[2]),
      accuracy_rating |-> sub_rating(overall, j[3]),
      timeliness_rating |-> sub_rating(overall, j[4]),
      value_rating |-> sub_rating(overall, j[5]),
      would_recommend |-> would_recommend(overall),
      would_work_again |-> would_work_again(overall) ]

\* a project that is not completed is not in completed_projects, and a
\* completed one is passed over when random.random() > REVIEW_RATE
no_review ==
    /\ pc = "reviews"
    /\ loop.i <= Len(projects)
    /\ loop' = [loop EXCEPT !.i = @ + 1]
    /\ UNCHANGED <<pc, cfg, run, businesses, estimators, projects, db, tx, seeded, pos, prior, calls, arg, ret, ui>>

\* one iteration of generate_reviews' loop that writes a review
generate_reviews(D) ==
    /\ pc = "reviews"
    /\ loop.i <= Len(projects)
    /\ projects[loop.i].status = "completed"
    /\ estimators # <<>>
    /\ \E e \in DOMAIN estimators, j \in D.jitters, beta \in SeededDraws("np", D.beta) :
         /\ tx' = Insert("reviews",
                         review_of(projects[loop.i], estimators[e], overall_rating(beta), j,
                                   uuid4("reviews", Len(Rows("reviews")) + 1)))
         /\ seeded' = SeededAfter("np", beta)
         /\ pos' = [pos EXCEPT !["np"] = @ + 1]
    /\ loop' = [loop EXCEPT !.i = @ + 1]
    /\ UNCHANGED <<pc, cfg, run, businesses, estimators, projects, db, prior, calls, arg, ret, ui>>

\* random.choice(estimators) on an empty list raises IndexError
reviews_raises ==
    /\ pc = "reviews"
    /\ loop.i <= Len(projects)
    /\ projects[loop.i].status = "completed"
    /\ estimators = <<>>
    /\ raise

----------------------------------------------------------------------------
(* The script run once: main() from its first line with the volumes cfg.   *)

Volumes ==
    [ businesses : 0..MaxBusinesses, estimators : 0..MaxEstimators, projects : 0..MaxProjects ]

Start(volumes) ==
    /\ pc = "main"
    /\ cfg \in volumes
    /\ run = 1
    /\ businesses = <<>>
    /\ estimators = <<>>
    /\ projects = <<>>
    /\ db = EmptyStore
    /\ tx = EmptyStore
    /\ loop = NoLoop
    /\ seeded = [np |-> <<>>, fake |-> <<>>]
    /\ pos = [np |-> 0, fake |-> 0]
    /\ prior = EmptyStore
    /\ calls = {}
    /\ arg = <<>>
    /\ ret = <<>>
    /\ ui = NoUi

\* the draws explored by the run of the whole pipeline
MainDraws ==
    [ city |-> {1}, lognormal |-> {100000000}, posted |-> {0}, status_pick |-> {1, 3},
      specializations |-> {2},
      variance |-> {0}, eng |-> {0}, cont |-> {2}, fractions |-> {<<2, 2, 2, 2, 2, 2>>},
      days |-> {7}, klass |-> {1}, bid_days |-> {1}, accepted |-> BOOLEAN,
      beta |-> {85}, satisfaction |-> {440}, jitters |-> {<<0, 2, 4, 2, 2>>} ]

Init == Start(Volumes)

GenerateBusinesses == generate_businesses(MainDraws)
GenerateEstimators == generate_estimators(MainDraws)
GenerateExpertise == generate_expertise(MainDraws)
GenerateProjects == generate_projects(MainDraws)
ProgressiveStep == progressive_step(MainDraws)
IndependentStep == independent_step(MainDraws)
GenerateReviews == generate_reviews(MainDraws)

Next ==
    \/ create_database
    \/ GenerateBusinesses
    \/ GenerateEstimators
    \/ GenerateExpertise
    \/ GenerateProjects
    \/ generate_projects_raises
    \/ begin_progressive
    \/ progressive_raises
    \/ ProgressiveStep
    \/ begin_independent
    \/ IndependentStep
    \/ no_review
    \/ GenerateReviews
    \/ reviews_raises
    \/ commit

Spec == Init /\ [][Next]_vars

----------------------------------------------------------------------------
(* One project through generate_projects(), generate_estimates() and       *)
(* generate_reviews(), with the budgets, classes, variances and day steps  *)
(* drawn widely.  It starts where main() calls generate_projects(): one    *)
(* business and two estimators are generated and committed.                *)

SeqBusiness ==
    [business_id |-> <<1, "businesses", 1>>, state |-> "NY", annual_revenue |-> 100000000]

SeqEstimators ==
    << [estimator_id |-> <<1, "estimators", 1>>, client_satisfaction_score |-> 440],
       [estimator_id |-> <<1, "estimators", 2>>, client_satisfaction_score |-> 440] >>

SeqDraws ==
    [ city |-> {1, 4, 14}, lognormal |-> {100000000, 44241339, 100001},
      posted |-> {100}, status_pick |-> {1},
      specializations |-> {1},
      variance |-> {0, 4}, eng |-> {0}, cont |-> {2}, fractions |-> {<<2, 2, 2, 2, 2, 2>>},
      days |-> {7, 21}, klass |-> 1..5, bid_days |-> {1, 14}, accepted |-> BOOLEAN,
      beta |-> {85}, satisfaction |-> {440}, jitters |-> {<<0, 2, 4, 2, 2>>} ]

InitSeq ==
    /\ pc = "projects"
    /\ cfg = [businesses |-> 1, estimators |-> 2, projects |-> 1]
    /\ run = 1
    /\ businesses = <<SeqBusiness>>
    /\ estimators = SeqEstimators
    /\ projects = <<>>
    /\ db = [EmptyStore EXCEPT !["businesses"] = <<SeqBusiness>>,
                               !["estimators"] = SeqEstimators,
                               !["expertise"] =
                                   [k \in 1..2 |-> [ expertise_id |-> <<1, "expertise", k>>,
                                                     estimator_id |-> SeqEstimators[k].estimator_id ]]]
    /\ tx = EmptyStore
    /\ loop = NoLoop
    /\ seeded = [np |-> <<SeqBusiness.annual_revenue>> \o
                         [k \in 1..2 |-> SeqEstimators[k].client_satisfaction_score],
                 fake |-> <<>>]
    /\ pos = [np |-> 3, fake |-> 0]
    /\ prior = EmptyStore
    /\ calls = {}
    /\ arg = <<>>
    /\ ret = <<>>
    /\ ui = NoUi

SeqGenerateProjects == generate_projects(SeqDraws)
SeqProgressiveStep == progressive_step(SeqDraws)
SeqIndependentStep == independent_step(SeqDraws)

SeqGenerateReviews == generate_reviews(SeqDraws)

NextSeq ==
    \/ SeqGenerateProjects
    \/ begin_progressive
    \/ SeqProgressiveStep
    \/ begin_independent
    \/ SeqIndependentStep
    \/ no_review
    \/ SeqGenerateReviews
    \/ commit

SpecSeq == InitSeq /\ [][NextSeq]_vars

----------------------------------------------------------------------------
(* The script run twice with the seeds of lines 21-24: the second          *)
(* execution starts when the first has ended, with both seeded streams at  *)
(* their start again and fresh entropy for uuid4.                          *)

SeedDraws ==
    [ city |-> {1, 14}, lognormal |-> {100000000, 100001}, posted |-> {0, 700}, status_pick |-> {1},
      specializations |-> {1},
      variance |-> {0}, eng |-> {0}, cont |-> {2}, fractions |-> {<<2, 2, 2, 2, 2, 2>>},
      days |-> {7}, klass |-> {1}, bid_days |-> {1}, accepted |-> {FALSE},
      beta |-> {85, 70}, satisfaction |-> {440}, jitters |-> {<<0, 2, 4, 2, 2>>} ]

\* the script is started again: the seeds are set anew and create_database()
\* will find the store the first execution left
rerun ==
    /\ pc \in {"done", "aborted"}
    /\ run = 1
    /\ run' = 2
    /\ prior' = db
    /\ pc' = "main"
    /\ businesses' = <<>>
    /\ estimators' = <<>>
    /\ projects' = <<>>
    /\ loop' = NoLoop
    /\ pos' = [np |-> 0, fake |-> 0]
    /\ calls' = {}
    /\ UNCHANGED <<cfg, db, tx, seeded, arg, ret, ui>>

InitSeed == Start([businesses : 0..1, estimators : 0..1, projects : 0..1])

SeedGenerateBusinesses == generate_businesses(SeedDraws)
SeedGenerateEstimators == generate_estimators(SeedDraws)
SeedGenerateExpertise == generate_expertise(SeedDraws)
SeedGenerateProjects == generate_projects(SeedDraws)
SeedProgressiveStep == progressive_step(SeedDraws)
SeedIndependentStep == independent_step(SeedDraws)
SeedGenerateReviews == generate_reviews(SeedDraws)

NextSeed ==
    \/ create_database
    \/ SeedGenerateBusinesses
    \/ SeedGenerateEstimators
    \/ SeedGenerateExpertise
    \/ SeedGenerateProjects
    \/ generate_projects_raises
    \/ begin_progressive
    \/ progressive_raises
    \/ SeedProgressiveStep
    \/ begin_independent
    \/ SeedIndependentStep
    \/ no_review
    \/ SeedGenerateReviews
    \/ reviews_raises
    \/ commit
    \/ rerun

SpecSeed == InitSeed /\ [][NextSeed]_vars

----------------------------------------------------------------------------
(* What the properties below speak of. *)

Estimates == Range(Rows("estimates"))

\* the estimates of the project with this id
SequenceOf(id) == {e \in Estimates : e.project_id = id}

\* the project an estimate was made for
ProjectOf(e) == CHOOSE p \in Range(projects) : p.project_id = e.project_id

\* generate_progressive_estimates() has returned for the project with this id
Complete(id) ==
    ~(pc = "estimates" /\ loop.mode = "progressive" /\ projects[loop.i].project_id = id)

Width(e) == e.confidence_interval_high - e.confidence_interval_low

\* x is the exact quotient a * k / d
Exactly(x, a, k, d) == MulDiv(a, k, d) = <<x, 0>>

\* x is a whole number nearest to the quotient a * k / d
Nearest(x, a, k, d) ==
    LET qr == MulDiv(a, k, d)
    IN  \/ x = qr[1] /\ 2 * qr[2] <= d
        \/ x = qr[1] + 1 /\ 2 * qr[2] >= d

\* the name of AACE class n
ClassNamed(n) == <<"class_1", "class_2", "class_3", "class_4", "class_5">>[n]

\* the base np.random.lognormal gave for the k-th project: every business
\* and every estimator took its value of the stream before
BaseBudgetOf(k) == seeded.np[cfg.businesses + cfg.estimators + k]

----------------------------------------------------------------------------
(* C1.  In every progressive sequence the width of the confidence          *)
(* interval, confidence_interval_high - confidence_interval_low, of a      *)
(* later step is never greater than that of an earlier step.               *)
C1_WidthNeverIncreases ==
    \A id \in calls : \A a, b \in SequenceOf(id) :
        a.estimate_sequence < b.estimate_sequence => Width(b) <= Width(a)

\* a sequence of five steps, the last narrower than the first
C1_Witness ==
    \E id \in calls : \E a, b \in SequenceOf(id) :
        /\ Complete(id)
        /\ a.estimate_sequence = 1
        /\ b.estimate_sequence = 5
        /\ Width(b) < Width(a)

(* C2.  In a progressive sequence the step with estimate_sequence s (s = 1 *)
(* the first, at most 5) has AACE class 6 - s: it starts at class_5 and    *)
(* advances one class a step, never back.                                  *)
C2_ClassProgression ==
    \A id \in calls : \A e \in SequenceOf(id) :
        /\ e.estimate_sequence \in 1..5
        /\ e.aace_class = ClassNamed(6 - e.estimate_sequence)

\* a finished sequence of five steps that ends at class_1
C2_Witness ==
    \E id \in calls : \E e \in SequenceOf(id) :
        /\ Complete(id)
        /\ e.estimate_sequence = 5
        /\ e.aace_class = "class_1"

(* C3.  In every progressive sequence submitted_date grows from each step  *)
(* to the next by at least 7 and at most 21 days.                          *)
C3_DatesStepSevenToTwentyOne ==
    \A id \in calls : \A a, b \in SequenceOf(id) :
        b.estimate_sequence = a.estimate_sequence + 1 =>
            b.submitted_date - a.submitted_date \in 7..21

(* C4.  A finished progressive sequence has exactly one accepted estimate, *)
(* the one with the highest estimate_sequence, and every other estimate of *)
(* it is superseded.                                                       *)
C4_TerminalAcceptance ==
    \A id \in calls :
        Complete(id) =>
            LET S == SequenceOf(id)
            IN  /\ Cardinality({e \in S : e.status = "accepted"}) = 1
                /\ \A e \in S :
                     IF \A f \in S : f.estimate_sequence <= e.estimate_sequence
                     THEN e.status = "accepted"
                     ELSE e.status = "superseded"

\* a finished sequence of three steps
C4_Witness ==
    \E id \in calls :
        /\ Complete(id)
        /\ Cardinality(SequenceOf(id)) = 3
        /\ \E e \in SequenceOf(id) : e.estimate_sequence = 3 /\ e.status = "accepted"

(* C5.  Two executions with the same seeds leave the same store: when the  *)
(* second has ended, every table holds the rows the first left.            *)
C5_SameSeedsSameStore ==
    (run = 2 /\ pc \in {"done", "aborted"}) => db = prior

(* C6, as claimed.  For every estimate of either mode the bounds of the    *)
(* confidence interval are exactly base x (1 + offset/100) for the offsets *)
(* of its class, base the midpoint of the project's budget, and the        *)
(* estimated total cost lies between them.                                 *)
C6_BoundsAreExactProducts ==
    \A e \in Estimates :
        LET base2 == ProjectOf(e).estimated_budget_min + ProjectOf(e).estimated_budget_max
            info == AACE_CLASSES[e.aace_class]
        IN  /\ Exactly(e.confidence_interval_low, base2, 100 + info.confidence_low, 200)
            /\ Exactly(e.confidence_interval_high, base2, 100 + info.confidence_high, 200)
            /\ e.confidence_interval_low <= e.estimated_total_cost
            /\ e.estimated_total_cost <= e.confidence_interval_high

(* C6, amended.  The bounds are base x (1 + offset/100) rounded to the     *)
(* cent: each is a whole number of cents nearest to the product, fixed by  *)
(* the project and the class alone, and the estimated total cost lies      *)
(* between them.                                                           *)
C6_BoundsAreRoundedProducts ==
    \A e \in Estimates :
        LET base2 == ProjectOf(e).estimated_budget_min + ProjectOf(e).estimated_budget_max
            info == AACE_CLASSES[e.aace_class]
        IN  /\ Nearest(e.confidence_interval_low, base2, 100 + info.confidence_low, 200)
            /\ Nearest(e.confidence_interval_high, base2, 100 + info.confidence_high, 200)
            /\ e.confidence_interval_low <= e.estimated_total_cost
            /\ e.estimated_total_cost <= e.confidence_interval_high

\* base 1,000,000.00: a class_5 estimate bounded by 500,000.00 and
\* 2,000,000.00 and a class_1 estimate by 900,000.00 and 1,150,000.00, one
\* of them a bid; and an estimate whose low bound had to be rounded
C6_Witness ==
    /\ \E e \in Estimates :
         /\ e.aace_class = "class_5"
         /\ e.confidence_interval_low = 50000000
         /\ e.confidence_interval_high = 200000000
    /\ \E e \in Estimates :
         /\ e.aace_class = "class_1"
         /\ e.project_id \notin calls
         /\ e.confidence_interval_low = 90000000
         /\ e.confidence_interval_high = 115000000
         /\ e.estimated_total_cost = e.confidence_interval_high

\* an estimate whose low bound is not the exact product
C6_RoundedWitness ==
    \E e \in Estimates :
        /\ e.project_id \in calls
        /\ e.estimated_total_cost = e.confidence_interval_low
        /\ ~Exactly(e.confidence_interval_low,
                    ProjectOf(e).estimated_budget_min + ProjectOf(e).estimated_budget_max,
                    100 + AACE_CLASSES[e.aace_class].confidence_low, 200)

(* C7, as claimed.  For every project, b its sampled base and m the        *)
(* multiplier of its state: budget_min = 0.8 x b x m, budget_max =         *)
(* 1.2 x b x m, budget_min <= budget_max, the midpoint divided by m is b,  *)
(* and the stored regional_cost_multiplier is m.                           *)
C7_BudgetsAreExactProducts ==
    \A k \in DOMAIN projects :
        LET p == projects[k]
            b == BaseBudgetOf(k)
            m == REGIONAL_COST_MULTIPLIERS[p.project_state]
        IN  /\ p.regional_cost_multiplier = m
            /\ Exactly(p.estimated_budget_min, b, 8 * m, 1000)
            /\ Exactly(p.estimated_budget_max, b, 12 * m, 1000)
            /\ p.estimated_budget_min <= p.estimated_budget_max
            /\ Exactly(b, p.estimated_budget_min + p.estimated_budget_max, 50, m)

(* C7, amended.  budget_min and budget_max are 0.8 x b x m and             *)
(* 1.2 x b x m rounded to the cent, budget_min <= budget_max, their        *)
(* midpoint is within half a cent of b x m, and the stored                 *)
(* regional_cost_multiplier is m.                                          *)
C7_BudgetsAreRoundedProducts ==
    \A k \in DOMAIN projects :
        LET p == projects[k]
            b == BaseBudgetOf(k)
            m == REGIONAL_COST_MULTIPLIERS[p.project_state]
            \* 2 x b x m in half-cents: a whole part and hundredths
            twice == MulDiv(b, 2 * m, 100)
            off == (p.estimated_budget_min + p.estimated_budget_max - twice[1]) * 100 - twice[2]
        IN  /\ p.regional_cost_multiplier = m
            /\ Nearest(p.estimated_budget_min, b, 8 * m, 1000)
            /\ Nearest(p.estimated_budget_max, b, 12 * m, 1000)
            /\ p.estimated_budget_min <= p.estimated_budget_max
            /\ off >= -100
            /\ off <= 100

\* m = 1.35 and b = 1,000,000.00 give 1,080,000.00 and 1,620,000.00
C7_Witness ==
    \E k \in DOMAIN projects :
        /\ projects[k].project_state = "NY"
        /\ BaseBudgetOf(k) = 100000000
        /\ projects[k].estimated_budget_min = 108000000
        /\ projects[k].estimated_budget_max = 162000000

(* C8.  With an empty estimator pool generate_estimates() never gets past  *)
(* a project: the run fails at the first one, whichever branch is taken.   *)
C8_EmptyPoolIsFatal ==
    \A k \in DOMAIN projects :
        estimators = <<>> =>
            ~(\/ pc = "estimates" /\ loop.i > k
              \/ pc \in {"reviews", "done"})

(* C9.  A run that aborts leaves none of its rows in the store.            *)
C9_NoPartialCommit ==
    pc = "aborted" => \A t \in Tables : db[t] = <<>>

(* C10.  Rows are written in the order businesses, estimators, expertise,  *)
(* projects, estimates, reviews: while a table is being written the        *)
(* tables after it are empty and only it has uncommitted rows; and every   *)
(* row present refers to rows present: a project to its business, an       *)
(* expertise record to its estimator, an estimate to its project and       *)
(* estimator, a review to its project, business and estimator.             *)
ClaimedOrder == <<"businesses", "estimators", "expertise", "projects", "estimates", "reviews">>

\* the place of main()'s position in the claimed order (0 before, 7 after)
ClaimedRank(p) ==
    IF p = "main" THEN 0
    ELSE IF \E k \in 1..6 : ClaimedOrder[k] = p
         THEN CHOOSE k \in 1..6 : ClaimedOrder[k] = p
         ELSE 7

Ids(t, field) == {row[field] : row \in Range(Rows(t))}

C10_DependencyOrder ==
    /\ \A k \in 1..6 :
         /\ ClaimedRank(pc) < k => Rows(ClaimedOrder[k]) = <<>>
         /\ tx[ClaimedOrder[k]] # <<>> => pc = ClaimedOrder[k]
    /\ \A r \in Range(Rows("projects")) : r.business_id \in Ids("businesses", "business_id")
    /\ \A r \in Range(Rows("expertise")) : r.estimator_id \in Ids("estimators", "estimator_id")
    /\ \A r \in Range(Rows("estimates")) :
         /\ r.project_id \in Ids("projects", "project_id")
         /\ r.estimator_id \in Ids("estimators", "estimator_id")
    /\ \A r \in Range(Rows("reviews")) :
         /\ r.project_id \in Ids("projects", "project_id")
         /\ r.reviewer_id \in Ids("businesses", "business_id")
         /\ r.reviewee_id \in Ids("estimators", "estimator_id")

\* a finished run that wrote every table
C10_Witness ==
    /\ pc = "done"
    /\ \A t \in Tables : db[t] # <<>>

----------------------------------------------------------------------------
(* One project of every age bracket and its review: generate_projects()    *)
(* with posted dates on both sides of each threshold, the estimates with   *)
(* one draw each, and generate_reviews() over the range of ratings.        *)

\* posted dates that leave 730, 301, 300, 151, 150, 61, 60 and 0 days to END_DATE
AgeDraws ==
    [ city |-> {4}, lognormal |-> {100000000},
      posted |-> {0, 429, 430, 579, 580, 669, 670, 730}, status_pick |-> 1..3,
      specializations |-> {1},
      variance |-> {2}, eng |-> {0}, cont |-> {2}, fractions |-> {<<2, 2, 2, 2, 2, 2>>},
      days |-> {7}, klass |-> {1}, bid_days |-> {1}, accepted |-> {FALSE},
      beta |-> {0, 1, 73, 75, 86, 88, 100}, satisfaction |-> {440},
      jitters |-> {<<0, 1, 2, 3, 4>>, <<4, 3, 2, 1, 0>>, <<0, 0, 4, 4, 2>>} ]

AgeGenerateProjects == generate_projects(AgeDraws)
AgeProgressiveStep == progressive_step(AgeDraws)
AgeIndependentStep == independent_step(AgeDraws)
AgeGenerateReviews == generate_reviews(AgeDraws)

\* COUNT(e.estimate_id) of the project's group in the LEFT JOIN
estimate_count(p) ==
    Cardinality({i \in DOMAIN db["estimates"] : db["estimates"][i].project_id = p.project_id})

\* load_customer_projects(business_id): the frames the query can return, one
\* row for each project of the business, latest posted_date first, in any
\* order among equal dates
load_customer_projects(business_id) ==
    LET own == {i \in DOMAIN db["projects"] : db["projects"][i].business_id = business_id}
        row(i) == [ project_id |-> db["projects"][i].project_id,
                    posted_date |-> db["projects"][i].posted_date,
                    estimate_count |-> estimate_count(db["projects"][i]) ]
    IN  { [k \in 1..Cardinality(own) |-> row(order[k])] :
            order \in { o \in [1..Cardinality(own) -> own] :
                          /\ \A j, k \in DOMAIN o : j # k => o[j] # o[k]
                          /\ \A j, k \in DOMAIN o :
                                j < k => db["projects"][o[j]].posted_date
                                           >= db["projects"][o[k]].posted_date } }

\* progressive = df[df['estimate_count'] > 1]
progressive(df) ==
    LET more(row) == row.estimate_count > 1
    IN  SelectSeq(df, more)

\* populate_project_selector(business_id): the dropdown's option values and
\* its default value, read from the committed database
populate_project_selector ==
    /\ pc = "done"
    /\ \E b \in DOMAIN db["businesses"] :
         \E df \in load_customer_projects(db["businesses"][b].business_id) :
            /\ arg' = db["businesses"][b].business_id
            /\ ret' = IF Len(progressive(df)) = 0
                      THEN << <<>>, "None" >>
                      ELSE << [k \in DOMAIN progressive(df) |-> progressive(df)[k].project_id],
                              progressive(df)[1].project_id >>
    /\ UNCHANGED <<pc, cfg, run, businesses, estimators, projects, db, tx, loop, seeded, pos,
                   prior, calls, ui>>

NextAge ==
    \/ populate_project_selector
    \/ AgeGenerateProjects
    \/ begin_progressive
    \/ AgeProgressiveStep
    \/ begin_independent
    \/ AgeIndependentStep
    \/ no_review
    \/ AgeGenerateReviews
    \/ commit

SpecAge == InitSeq /\ [][NextAge]_vars

----------------------------------------------------------------------------
(* One project and the fields of its estimates at the ends of their        *)
(* ranges: the cheapest and the dearest city, a base of a few dollars and  *)
(* one of a million, the lowest variance and cost fractions, and the ends  *)
(* of the engineering and contingency jitters.                             *)

FieldDraws ==
    [ city |-> {16, 26}, lognormal |-> {300, 100000000},
      posted |-> {100}, status_pick |-> {1},
      specializations |-> {1},
      variance |-> {0}, eng |-> {-5, 10}, cont |-> {0, 4},
      fractions |-> {<<0, 0, 0, 0, 0, 0>>},
      days |-> {7}, klass |-> 1..5, bid_days |-> {1}, accepted |-> {FALSE},
      beta |-> {85}, satisfaction |-> {440}, jitters |-> {<<0, 2, 4, 2, 2>>} ]

FieldGenerateProjects == generate_projects(FieldDraws)
FieldProgressiveStep == progressive_step(FieldDraws)
FieldIndependentStep == independent_step(FieldDraws)
FieldGenerateReviews == generate_reviews(FieldDraws)

NextFields ==
    \/ FieldGenerateProjects
    \/ begin_progressive
    \/ FieldProgressiveStep
    \/ begin_independent
    \/ FieldIndependentStep
    \/ no_review
    \/ FieldGenerateReviews
    \/ commit

SpecFields == InitSeq /\ [][NextFields]_vars

----------------------------------------------------------------------------
(* Functions called on their own: get_regional_multiplier() with the code  *)
(* of every state and territory and with strings that are no code at all,  *)
(* and the lookup of a class in AACE_CLASSES with the five class ids and   *)
(* with strings that are none of them.                                     *)

RegionCodes ==
    { "AL", "AK", "AZ", "AR", "CA", "CO", "CT", "DE", "FL", "GA",
      "HI", "ID", "IL", "IN", "IA", "KS", "KY", "LA", "ME", "MD",
      "MA", "MI", "MN", "MS", "MO", "MT", "NE", "NV", "NH", "NJ",
      "NM", "NY", "NC", "ND", "OH", "OK", "OR", "PA", "RI", "SC",
      "SD", "TN", "TX", "UT", "VT", "VA", "WA", "WV", "WI", "WY",
      "DC", "PR", "GU", "ny", "New York", "ZZ", "" }

ClassIds ==
    { "class_5", "class_4", "class_3", "class_2", "class_1",
      "class_0", "class_6", "Class 5", "CLASS_1", "5", "1", "" }

InitCalls ==
    /\ \/ pc = "call" /\ arg \in RegionCodes
       \/ pc = "lookup" /\ arg \in ClassIds
    /\ cfg = [businesses |-> 0, estimators |-> 0, projects |-> 0]
    /\ run = 1
    /\ businesses = <<>>
    /\ estimators = <<>>
    /\ projects = <<>>
    /\ db = EmptyStore
    /\ tx = EmptyStore
    /\ loop = NoLoop
    /\ seeded = [np |-> <<>>, fake |-> <<>>]
    /\ pos = [np |-> 0, fake |-> 0]
    /\ prior = EmptyStore
    /\ calls = {}
    /\ ret = <<>>
    /\ ui = NoUi

\* regional_multiplier = get_regional_multiplier(state)
call_get_regional_multiplier ==
    /\ pc = "call"
    /\ ret' = <<get_regional_multiplier(arg)>>
    /\ pc' = "returned"
    /\ UNCHANGED <<cfg, run, businesses, estimators, projects, db, tx, loop, seeded, pos, prior,
                   calls, arg, ui>>

\* mutant: the lookup made with dict.get and a default class
AACE_CLASSES_get(aace_class) ==
    IF aace_class \in DOMAIN AACE_CLASSES
    THEN [raised |-> "", value |-> <<AACE_CLASSES[aace_class]>>]
    ELSE [raised |-> "", value |-> <<AACE_CLASSES["class_5"]>>]

\* AACE_CLASSES[aace_class]: the entry of the dict, or the KeyError a dict
\* raises for a key it does not have
AACE_CLASSES_getitem(aace_class) ==
    IF aace_class \in DOMAIN AACE_CLASSES
    THEN [raised |-> "", value |-> <<AACE_CLASSES[aace_class]>>]
    ELSE [raised |-> "KeyError", value |-> <<>>]

\* class_info = AACE_CLASSES[aace_class]
lookup_class_info ==
    /\ pc = "lookup"
    /\ LET class_info == AACE_CLASSES_getitem(arg)
       IN  IF class_info.raised = ""
           THEN pc' = "looked_up" /\ ret' = class_info.value
           ELSE pc' = "lookup_raised" /\ ret' = <<class_info.raised>>
    /\ UNCHANGED <<cfg, run, businesses, estimators, projects, db, tx, loop, seeded, pos, prior,
                   calls, arg, ui>>

NextCalls ==
    \/ call_get_regional_multiplier
    \/ lookup_class_info

SpecCalls == InitCalls /\ [][NextCalls]_vars

----------------------------------------------------------------------------
(* The platform-admin dashboard's drill-down.  A click on a bar of the     *)
(* status chart or of the type chart sets that chart's clickData and runs  *)
(* update_projects_table, whose last two outputs are the filter stores.    *)

\* the values of the status chart's bars (y, the chart is horizontal)
ChartStatuses ==
    { "completed", "cancelled", "in_progress", "estimate_delivered",
      "matched", "estimate_in_progress", "posted", "in_bidding" }

\* the values of the type chart's bars (x): PROJECT_SUBTYPES
ChartSubtypes ==
    { "office_building", "retail", "restaurant", "warehouse", "hotel",
      "single_family", "multi_family", "townhome", "condo", "apartment",
      "road", "bridge", "utility", "parking", "site_work",
      "manufacturing", "distribution", "processing", "research",
      "school", "hospital", "government", "religious", "civic" }

\* ctx.triggered[0]['prop_id'], "" when ctx.triggered is empty; on the first
\* call, made when the page loads, no input has changed
Triggers == {"", ".", "status-chart.clickData", "type-chart.clickData"}

\* mutant: a click on one chart clearing the other chart's filter
update_projects_table_one_level(trigger, status_click, type_click, current_status, current_type) ==
    IF trigger = "status-chart.clickData" /\ status_click # "None"
    THEN [filter_status |-> status_click, filter_type |-> "None"]
    ELSE IF trigger = "type-chart.clickData" /\ type_click # "None"
         THEN [filter_status |-> "None", filter_type |-> type_click]
         ELSE [filter_status |-> current_status, filter_type |-> current_type]

\* update_projects_table(status_click, type_click, current_status, current_type):
\* its outputs to filter-status and filter-type; a click is the value
\* clickData['points'][0] has on the chart's category axis
update_projects_table(trigger, status_click, type_click, current_status, current_type) ==
    IF trigger # "" /\ trigger = "status-chart.clickData" /\ status_click # "None"
    THEN [filter_status |-> status_click, filter_type |-> current_type]
    ELSE IF trigger # "" /\ trigger = "type-chart.clickData" /\ type_click # "None"
         THEN [filter_status |-> current_status, filter_type |-> type_click]
         ELSE [filter_status |-> current_status, filter_type |-> current_type]

\* the callback run with this trigger on the page's inputs and stores
run_update_projects_table(trigger, page) ==
    LET out == update_projects_table(trigger, page.status_click, page.type_click,
                                     page.filter_status, page.filter_type)
    IN  [page EXCEPT !.filter_status = out.filter_status, !.filter_type = out.filter_type]

\* the page loads: Dash calls the callback once, with no clickData
page_load ==
    /\ pc = "admin"
    /\ ~ui.loaded
    /\ \E trigger \in Triggers :
         ui' = run_update_projects_table(trigger, [ui EXCEPT !.loaded = TRUE])
    /\ UNCHANGED <<pc, cfg, run, businesses, estimators, projects, db, tx, loop, seeded, pos,
                   prior, calls, arg, ret>>

\* a click on a bar of the status chart
click_status_chart ==
    /\ pc = "admin"
    /\ ui.loaded
    /\ \E y \in ChartStatuses :
         ui' = run_update_projects_table("status-chart.clickData", [ui EXCEPT !.status_click = y])
    /\ UNCHANGED <<pc, cfg, run, businesses, estimators, projects, db, tx, loop, seeded, pos,
                   prior, calls, arg, ret>>

\* a click on a bar of the type chart
click_type_chart ==
    /\ pc = "admin"
    /\ ui.loaded
    /\ \E x \in ChartSubtypes :
         ui' = run_update_projects_table("type-chart.clickData", [ui EXCEPT !.type_click = x])
    /\ UNCHANGED <<pc, cfg, run, businesses, estimators, projects, db, tx, loop, seeded, pos,
                   prior, calls, arg, ret>>

InitAdmin ==
    /\ pc = "admin"
    /\ cfg = [businesses |-> 0, estimators |-> 0, projects |-> 0]
    /\ run = 1
    /\ businesses = <<>>
    /\ estimators = <<>>
    /\ projects = <<>>
    /\ db = EmptyStore
    /\ tx = EmptyStore
    /\ loop = NoLoop
    /\ seeded = [np |-> <<>>, fake |-> <<>>]
    /\ pos = [np |-> 0, fake |-> 0]
    /\ prior = EmptyStore
    /\ calls = {}
    /\ arg = <<>>
    /\ ret = <<>>
    /\ ui = NoUi

NextAdmin ==
    \/ page_load
    \/ click_status_chart
    \/ click_type_chart

SpecAdmin == InitAdmin /\ [][NextAdmin]_vars

----------------------------------------------------------------------------
\* generate_estimates() has finished with the k-th project
Handled(k) ==
    \/ pc = "estimates" /\ loop.i > k
    \/ pc \in {"reviews", "done"}

(* C12.  In progressive mode one estimator is selected for the project and *)
(* every estimate of the project's sequence carries that estimator's id.   *)
C12_OneEstimatorPerSequence ==
    /\ loop.mode = "progressive" => Len(loop.sel) = 1
    /\ \A id \in calls : \A a, b \in SequenceOf(id) : a.estimator_id = b.estimator_id

\* a finished sequence of four steps, all by the second estimator of the pool
C12_Witness ==
    \E id \in calls :
        /\ Complete(id)
        /\ Cardinality(SequenceOf(id)) = 4
        /\ \A e \in SequenceOf(id) : e.estimator_id = estimators[2].estimator_id

(* C13.  A progressive sequence has N estimates, 2 <= N <= 5, numbered     *)
(* 1, 2, ..., N with no gap and no duplicate, and the count                *)
(* generate_progressive_estimates returns, which generate_estimates adds   *)
(* to its total, is the number of rows inserted.                           *)
C13_SequenceNumbering ==
    /\ loop.mode = "progressive" => loop.num \in 2..MAX_PROGRESSIVE_ESTIMATES
    /\ \A id \in calls :
         LET S == SequenceOf(id)
             N == Cardinality(S)
         IN  /\ {e.estimate_sequence : e \in S} = 1..N
             /\ N <= MAX_PROGRESSIVE_ESTIMATES
             /\ IF Complete(id) THEN N >= 2 ELSE N = loop.seq /\ N < loop.num
    /\ (pc = "estimates" /\ loop.mode = "none") => loop.total_count = Len(tx["estimates"])

\* a finished sequence of five rows, counted as five
C13_Witness ==
    /\ pc = "estimates"
    /\ loop.mode = "none"
    /\ loop.total_count = 5
    /\ \E id \in calls : {e.estimate_sequence : e \in SequenceOf(id)} = 1..5

(* C14.  In independent mode a project gets min(k, pool size) estimates    *)
(* for a drawn k in 1..3, and no two of them carry the same estimator_id.  *)
C14_DistinctBidders ==
    /\ loop.mode = "independent" =>
         /\ loop.num \in 1..3
         /\ Len(loop.sel) = Min(loop.num, Len(estimators))
         /\ Cardinality(SequenceOf(projects[loop.i].project_id)) = loop.seq
    /\ \A k \in DOMAIN projects :
         LET S == SequenceOf(projects[k].project_id)
         IN  projects[k].project_id \notin calls =>
               /\ \A a, b \in S : a.estimator_id = b.estimator_id => a = b
               /\ Handled(k) =>
                    \E n \in 1..3 : Cardinality(S) = Min(n, Len(estimators))

\* k = 3 drawn with a pool of two: the whole pool bids, once each
C14_Witness ==
    /\ loop.mode = "independent"
    /\ loop.num = 3
    /\ loop.seq = 1
    /\ Len(loop.sel) = 2
    /\ Cardinality(SequenceOf(projects[loop.i].project_id)) = 1

(* C15.  Every estimate made in independent mode has estimate_sequence 1,  *)
(* a status that is accepted or pending, never superseded, and one of the  *)
(* five AACE classes, whatever the other bids of its project have.         *)
C15_IndependentBids ==
    \A e \in Estimates :
        e.project_id \notin calls =>
            /\ e.estimate_sequence = 1
            /\ e.status \in {"accepted", "pending"}
            /\ e.aace_class \in Range(AACE_CLASS_KEYS)

\* two bids of one project: the earlier row class_1 and pending, the later
\* class_5 and accepted
C15_Witness ==
    \E a, b \in Estimates :
        /\ a.project_id = b.project_id
        /\ a.project_id \notin calls
        /\ a.estimate_id[3] < b.estimate_id[3]
        /\ a.aace_class = "class_1" /\ a.status = "pending"
        /\ b.aace_class = "class_5" /\ b.status = "accepted"

----------------------------------------------------------------------------
\* the age of a project: whole days from posted_date to END_DATE
Age(p) == END_DATE - p.posted_date

Long == {"completed", "cancelled", "in_progress"}
Middle == {"in_progress", "estimate_delivered", "completed"}
Recent == {"matched", "estimate_in_progress", "in_progress"}
New == {"posted", "in_bidding", "matched"}

(* C11, as claimed.  A project's status is one its age bracket allows:     *)
(* more than 300 days, 150 to 300 days, 60 to 150 days, under 60 days,     *)
(* an age on a shared end of two ranges allowed the statuses of both.      *)
C11_StatusOfStatedBracket ==
    \A p \in Range(projects) :
        p.status \in UNION { IF Age(p) > 300 THEN Long ELSE {},
                             IF Age(p) >= 150 /\ Age(p) <= 300 THEN Middle ELSE {},
                             IF Age(p) >= 60 /\ Age(p) <= 150 THEN Recent ELSE {},
                             IF Age(p) < 60 THEN New ELSE {} }

(* C11, amended.  The brackets are more than 300 days, 151 to 300 days,    *)
(* 61 to 150 days, and 60 days or fewer: every age is in exactly one, and  *)
(* the status is one of the three of the age's bracket.                    *)
C11_StatusOfAgeBracket ==
    \A p \in Range(projects) :
        /\ Age(p) \in 0..END_DATE
        /\ Age(p) \in 301..END_DATE => p.status \in Long
        /\ Age(p) \in 151..300 => p.status \in Middle
        /\ Age(p) \in 61..150 => p.status \in Recent
        /\ Age(p) \in 0..60 => p.status \in New

\* a project posted exactly 60 days before END_DATE, in bidding, and its
\* estimates already made
C11_Witness ==
    /\ pc = "reviews"
    /\ \E p \in Range(projects) : Age(p) = 60 /\ p.status = "in_bidding"

(* C16.  get_regional_multiplier returns the table's multiplier for a code *)
(* the table has and 1.0 for any other, never raising, and what it returns *)
(* is positive.                                                            *)
C16_RegionalMultiplierDefault ==
    /\ pc = "call" => ENABLED call_get_regional_multiplier
    /\ pc = "returned" =>
         /\ Len(ret) = 1
         /\ ret[1] > 0
         /\ arg \in DOMAIN REGIONAL_COST_MULTIPLIERS => ret[1] = REGIONAL_COST_MULTIPLIERS[arg]
         /\ arg \notin DOMAIN REGIONAL_COST_MULTIPLIERS => ret[1] = 100

\* a code of no state has returned 1.0
C16_Witness ==
    /\ pc = "returned"
    /\ arg = "ZZ"
    /\ ret = <<100>>

(* C17.  From class 5 to class 1 the confidence band of each class lies    *)
(* within the band of the class before it, and the nominal engineering     *)
(* completion strictly increases: the table every estimate is made from    *)
(* is nested and monotone.                                                 *)
C17_NestedClassTable ==
    \A e \in Estimates : \A n \in 1..4 :
        LET inner == AACE_CLASSES[ClassNamed(n)]
            outer == AACE_CLASSES[ClassNamed(n + 1)]
        IN  /\ outer.confidence_low <= inner.confidence_low
            /\ inner.confidence_low <= inner.confidence_high
            /\ inner.confidence_high <= outer.confidence_high
            /\ outer.engineering_completion < inner.engineering_completion

\* a sequence through all five classes: each estimate's interval strictly
\* inside that of the estimate before
C17_Witness ==
    \E id \in calls :
        /\ Cardinality(SequenceOf(id)) = 5
        /\ \A a, b \in SequenceOf(id) :
             b.estimate_sequence = a.estimate_sequence + 1 =>
                /\ a.confidence_interval_low < b.confidence_interval_low
                /\ b.confidence_interval_high < a.confidence_interval_high

C19_ReviewsOfCompletedProjects ==
    \A r \in Range(Rows("reviews")) :
        /\ \E p \in Range(projects) :
             /\ p.project_id = r.project_id
             /\ p.status = "completed"
             /\ r.reviewer_id = p.business_id
        /\ \A q \in Range(Rows("reviews")) : q.project_id = r.project_id => q = r

\* a review written by the second of two businesses
C19_Witness ==
    /\ Len(businesses) = 2
    /\ \E r \in Range(Rows("reviews")) : r.reviewer_id = businesses[2].business_id

SubRatings(r) ==
    { r.communication_rating, r.professionalism_rating, r.accuracy_rating,
      r.timeliness_rating, r.value_rating }

(* C20.  In every review the overall rating and the five sub-ratings are   *)
(* between 1 and 5 and no sub-rating is more than 0.5 away from the        *)
(* overall rating.                                                         *)
C20_RatingsInRange ==
    \A r \in Range(Rows("reviews")) :
        /\ r.overall_rating \in 10..50
        /\ \A x \in SubRatings(r) :
             /\ x \in 10..50
             /\ x - r.overall_rating \in -5..5

\* overall 5.0: a sub-rating jittered down to 4.5 and one held at 5.0 by the clamp
C20_Witness ==
    \E r \in Range(Rows("reviews")) :
        /\ r.overall_rating = 50
        /\ r.communication_rating = 45
        /\ r.value_rating = 50

----------------------------------------------------------------------------
(* C21.  In every review would_recommend is set exactly when the overall   *)
(* rating is at least 4.0 and would_work_again exactly when it is at       *)
(* least 4.5, so that would_work_again implies would_recommend.            *)
C21_RecommendationThresholds ==
    \A r \in Range(Rows("reviews")) :
        /\ r.would_recommend \in {0, 1}
        /\ r.would_work_again \in {0, 1}
        /\ r.would_recommend = 1 <=> r.overall_rating >= 40
        /\ r.would_work_again = 1 <=> r.overall_rating >= 45
        /\ r.would_work_again = 1 => r.would_recommend = 1

\* a review rated exactly 4.0: recommended, not to be worked with again
C21_Witness ==
    \E r \in Range(Rows("reviews")) :
        /\ r.overall_rating = 40
        /\ r.would_recommend = 1
        /\ r.would_work_again = 0

----------------------------------------------------------------------------
(* C22.  For every estimate of either mode engineering_completion_percent  *)
(* is the nominal completion of its class plus a jitter between -5 and 10, *)
(* clamped, so that it lies between 0 and 100.                             *)
C22_EngineeringPercentClamped ==
    \A e \in Estimates :
        LET nominal == AACE_CLASSES[e.aace_class].engineering_completion
        IN  /\ e.engineering_completion_percent \in 0..100
            /\ \E jitter \in -5..10 :
                 e.engineering_completion_percent = Max(0, Min(100, nominal + jitter))

\* both ends of the clamp: a class_5 estimate held at 0 and a class_1
\* estimate held at 100, and a bid held at 100
C22_Witness ==
    \/ \E a, b \in Estimates :
         /\ a.project_id \in calls
         /\ a.aace_class = "class_5" /\ a.engineering_completion_percent = 0
         /\ b.aace_class = "class_1" /\ b.engineering_completion_percent = 100
    \/ \E a, b \in Estimates :
         /\ a.project_id \notin calls
         /\ a.aace_class = "class_5" /\ a.engineering_completion_percent = 0
         /\ b.aace_class = "class_1" /\ b.engineering_completion_percent = 100

CostComponents(e) ==
    { e.cost_breakdown.labor_cost, e.cost_breakdown.materials_cost,
      e.cost_breakdown.equipment_cost, e.cost_breakdown.subcontractor_cost,
      e.cost_breakdown.overhead_cost, e.cost_breakdown.profit_margin }

(* C23.  Every financial quantity is strictly positive: the budget_min and *)
(* budget_max of a project, and the estimated_total_cost, the two bounds   *)
(* of the confidence interval and the six cost components of an estimate,  *)
(* in both modes, for every class and region.                              *)
C23_FinancialQuantitiesPositive ==
    /\ \A p \in Range(projects) :
         /\ p.estimated_budget_min > 0
         /\ p.estimated_budget_max > 0
    /\ \A e \in Estimates :
         /\ e.estimated_total_cost > 0
         /\ e.confidence_interval_low > 0
         /\ e.confidence_interval_high > 0
         /\ \A x \in CostComponents(e) : x > 0

\* a class_5 estimate at the bottom of its band for the smallest project in
\* the cheapest state
C23_Witness ==
    \E e \in Estimates :
        /\ ProjectOf(e).project_state = "IN"
        /\ ProjectOf(e).estimated_budget_min < 300
        /\ e.aace_class = "class_5"
        /\ e.estimated_total_cost = e.confidence_interval_low
        /\ e.cost_breakdown.profit_margin < 10

(* C25.  In a progressive sequence engineering_completion_percent of each  *)
(* estimate is at least that of the estimate before it.                    *)
C25_EngineeringProgresses ==
    \A id \in calls : \A a, b \in SequenceOf(id) :
        b.estimate_sequence = a.estimate_sequence + 1 =>
            a.engineering_completion_percent <= b.engineering_completion_percent

(* C26.  In a progressive sequence contingency_percent of each estimate is *)
(* lower than that of the estimate before it.                              *)
C26_ContingencyDecreases ==
    \A id \in calls : \A a, b \in SequenceOf(id) :
        b.estimate_sequence = a.estimate_sequence + 1 =>
            b.contingency_percent < a.contingency_percent

----------------------------------------------------------------------------
(* C24, as claimed.  The lookup of a class id that is none of the five     *)
(* fails with an InvalidClass error and returns nothing.                   *)
C24_InvalidClassError ==
    (pc \in {"looked_up", "lookup_raised"} /\ arg \notin Range(AACE_CLASS_KEYS)) =>
        /\ pc = "lookup_raised"
        /\ ret = <<"InvalidClass">>

(* C24, amended.  The lookup of a class id that is none of the five fails  *)
(* with the KeyError of the dict, returning no value and no default; the   *)
(* lookup of one of the five returns its entry of the table.               *)
C24_InvalidClassKeyError ==
    /\ (pc \in {"looked_up", "lookup_raised"} /\ arg \notin Range(AACE_CLASS_KEYS)) =>
         /\ pc = "lookup_raised"
         /\ ret = <<"KeyError">>
    /\ (pc \in {"looked_up", "lookup_raised"} /\ arg \in Range(AACE_CLASS_KEYS)) =>
         /\ pc = "looked_up"
         /\ ret = <<AACE_CLASSES[arg]>>

\* the lookup of class_6 has failed
C24_Witness ==
    /\ pc = "lookup_raised"
    /\ arg = "class_6"

(* C27.  Every project offered by the customer dashboard's funnel project  *)
(* selector was generated in progressive mode; a project generated in      *)
(* independent-bids mode is never offered.                                 *)
C27_SelectorOffersProgressiveOnly ==
    (pc = "done" /\ ret # <<>>) =>
        \A k \in DOMAIN ret[1] : ret[1][k] \in calls

(* C28.  After a complete generation run every project has at most one     *)
(* estimate with status accepted, whichever mode made its estimates.       *)
C28_AtMostOneAccepted ==
    pc = "done" =>
        \A p \in Range(projects) :
            Cardinality({e \in SequenceOf(p.project_id) : e.status = "accepted"}) <= 1

(* C29.  The estimator a review is about has authored at least one         *)
(* estimate of the reviewed project.                                       *)
C29_RevieweeAuthoredAnEstimate ==
    \A r \in Range(Rows("reviews")) :
        \E e \in SequenceOf(r.project_id) : e.estimator_id = r.reviewee_id

(* C30.  In the platform-admin drill-down, after any sequence of chart     *)
(* clicks each filter equals the value of the latest click on its own      *)
(* chart, None before any such click; a click on the status chart leaves   *)
(* the type filter as it was and a click on the type chart leaves the      *)
(* status filter as it was.                                                *)
C30_DrillDownFilters ==
    /\ [](ui.loaded => /\ ui.filter_status = ui.status_click
                       /\ ui.filter_type = ui.type_click)
    /\ [][ /\ ui'.type_click = ui.type_click => ui'.filter_type = ui.filter_type
           /\ ui'.status_click = ui.status_click => ui'.filter_status = ui.filter_status ]_vars

\* a status filter and a type filter both in force, set by two clicks
C30_Witness ==
    /\ ui.loaded
    /\ ui.filter_status = "completed"
    /\ ui.filter_type = "bridge"

====
